---- MODULE Spec2Model ----
(***************************************************************************)
(* A model of the game session scheduler (src/src/game.py) and of the      *)
(* weighted content selection of an Actor (src/src/templating.py).         *)
(*                                                                         *)
(* The scheduler runs on one asyncio event loop: a coroutine runs without  *)
(* interruption from one await to the next, so every action below is one   *)
(* such run.  Time is wall-clock time since Game.loop started, in minutes; *)
(* max_time is kept in tenths of a minute and the cumulative stage         *)
(* thresholds in percent, so that every comparison is on integers.         *)
(***************************************************************************)
EXTENDS Integers, Sequences, FiniteSets, TLC

\* ------------------------------------------------------------------ bounds
MaxConsequences == 1    \* state changes applied in one run
MaxGroups       == 2    \* StageGroups of an Actor under ActorSpec

Ids      == {1, 2}        \* discord user ids (ctx.user.id)
MaxTimes == {140, 160}    \* values of random.uniform(12.5, 16), in tenths

\* The Consequences of the choices on offer: a loss on the first and on the
\* last of the tracked attributes.
Consequences == {[attr |-> "loyalty", delta |-> -1], [attr |-> "world_opinion", delta |-> -1]}

\* The minutes at which the clock is read: on both sides of every threshold of
\* both values of max_time (3.5, 8.4 and 14; 4, 9.6 and 16), and on 4 and 14.
ClockReads == {0, 3, 4, 9, 14, 17}

\* ------------------------------------------------------- program constants
\* get_args(Stage): the declared stages.
total_stages == <<1, 2, 3>>

\* Game.cumm_percent_time_per_stage, [0.25, 0.6, 1], in percent.
cumm_percent_time_per_stage == <<25, 60, 100>>

\* Game.values_to_check.
values_to_check == <<"loyalty", "money", "security", "world_opinion">>

\* A mutant of the gather: return_exceptions is left at its default.
return_exceptions_default == FALSE

\* The keyword argument of asyncio.gather in Game.loop.
return_exceptions == TRUE

\* ------------------------------------------------------------------- state
VARIABLES
    players,       \* Game.players: user id -> Player object
    stage,         \* Game.stage
    max_time,      \* Game.max_time (tenths of a minute)
    loop_pc,       \* Game.loop: "created", "waiting" (in gather), "spinning",
                   \* "broadcasting" (in a send of the except clause), "crashed"
    game_time,     \* the local game_time of Game.loop: the clock as last read, in minutes
    tick,          \* the tick coroutines of the current gather, by user id
    notices,       \* per user id, the kinds of notice ("death", "error") sent to its ctx
    last_cmd,      \* the last join/leave command and its outcome
    consequences,  \* number of state changes applied so far
    broadcast,     \* the iterator of the for loop of the except clause: <<>> if none
    stage_groups,  \* the StageGroups an Actor is built from
    stages,        \* Actor.stages: <<>> before construction, then stage -> StageData
    selected       \* the last result of Actor.send's selection, <<>> if none

gameVars  == <<players, stage, max_time, loop_pc, game_time,
               tick, notices, last_cmd, consequences, broadcast>>
actorVars == <<stage_groups, stages, selected>>
vars      == <<players, stage, max_time, loop_pc, game_time,
               tick, notices, last_cmd, consequences, broadcast,
               stage_groups, stages, selected>>

\* ----------------------------------------------------------------- helpers
Range(f) == {f[x] : x \in DOMAIN f}

RECURSIVE SumSeq(_)
SumSeq(s) == IF s = <<>> THEN 0 ELSE s[1] + SumSeq(Tail(s))

\* list.index / tuple.index, zero-based; -1 stands for ValueError.
index(seq, x) ==
    IF \E i \in 1..Len(seq) : seq[i] = x
    THEN (CHOOSE i \in 1..Len(seq) : seq[i] = x /\ \A j \in 1..(i - 1) : seq[j] # x) - 1
    ELSE -1

\* dict without one key.
without(d, k) == [x \in DOMAIN d \ {k} |-> d[x]]

\* dict with d[k] = v.
with(d, k, v) == [x \in DOMAIN d \cup {k} |-> IF x = k THEN v ELSE d[x]]

\* ------------------------------------------------ templating.py: the content
\* Template(text, weight): a frozen value.
Template(text, weight) == [text |-> text, weight |-> weight]

tA == Template("a", 100)
tB == Template("b", 1)
tZ == Template("z", 0)

\* Condition: None, written <<>>, or a callable on a PlayerState, written
\* <<[attr |-> a, above |-> n]>> for lambda state: state.a > n.
condition(c, state) == state[c.attr] > c.above

\* ChoiceTemplate(text, weight, choices, condition): choices maps every label
\* to its Consequence.
ChoiceTemplate(text, weight, choices, cond) ==
    [text |-> text, weight |-> weight, choices |-> choices, condition |-> cond]

\* isinstance(template, ChoiceTemplate).
is_ChoiceTemplate(t) == "choices" \in DOMAIN t

\* ChoiceTemplate.is_available(player), on player.state.
is_available(t, state) ==
    IF t.condition # <<>> THEN condition(t.condition[1], state) ELSE TRUE

\* What template.ui raises before its ctx.send.  ChoiceTemplate.ui walks
\* enumerate(self.choices.items()) and calls choice.keys() on the (label,
\* consequence) tuple of the first item: AttributeError, unless choices is empty.
ui_raises(t) ==
    IF is_ChoiceTemplate(t) /\ DOMAIN t.choices # {} THEN "AttributeError" ELSE "none"

\* A ChoiceTemplate without a label, offered when loyalty > 50, and one with a
\* label and no condition.
tC == ChoiceTemplate("c", 100, [l \in {} |-> 0], <<[attr |-> "loyalty", above |-> 50]>>)
tD == ChoiceTemplate("d", 100,
                     [l \in {"accept"} |-> [attr |-> "loyalty", delta |-> -1]], <<>>)

\* The stage argument of StageGroup: one Stage, a tuple of Stages, or "all".
\* v holds the stage of an int, the members of a tuple, and nothing for "all".
StageInt(s)   == [kind |-> "int", v |-> <<s>>]
StageTuple(t) == [kind |-> "tuple", v |-> t]
StageAll      == [kind |-> "all", v |-> <<>>]

\* A mutant of the converter: "all" is kept as it is.
stage_converter_kept(s) == s

\* The converter of StageGroup.stage: total_stages if stage == "all" else stage.
stage_converter(s) == IF s.kind = "all" THEN StageTuple(total_stages) ELSE s

\* StageGroup(stage, templates).
StageGroup(s, templates) == [stage |-> stage_converter(s), templates |-> templates]

\* StageData(templates): the templates and the list of their weights.
StageData(templates) ==
    [templates |-> templates,
     weights   |-> [i \in 1..Len(templates) |-> templates[i].weight]]

\* The test of the inner loop of cast_stages: TRUE when the group is passed over.
group_skipped(template_stage, s) ==
    IF template_stage.kind = "int"
    THEN template_stage.v[1] # s
    ELSE s \notin Range(template_stage.v)

\* The inner loop of cast_stages: stage_templates += stage_group.templates.
RECURSIVE stage_templates(_, _)
stage_templates(groups, s) ==
    IF groups = <<>> THEN <<>>
    ELSE (IF group_skipped(Head(groups).stage, s) THEN <<>> ELSE Head(groups).templates)
         \o stage_templates(Tail(groups), s)

\* Actor.cast_stages: one StageData per declared stage.
cast_stages(groups) ==
    [s \in Range(total_stages) |-> StageData(stage_templates(groups, s))]

\* Actor.__init__ over the StageGroup(...) arguments of a character definition.
Actor(group_args) ==
    cast_stages([i \in 1..Len(group_args) |->
                    StageGroup(group_args[i].stage, group_args[i].templates)])

\* itertools.accumulate(weights).
cum_weights(weights) == [i \in 1..Len(weights) |-> SumSeq(SubSeq(weights, 1, i))]

\* A mutant of the bisection: bisect_left instead of bisect_right.
RECURSIVE bisect_left(_, _, _, _)
bisect_left(a, x, lo, hi) ==
    IF lo < hi
    THEN LET mid == (lo + hi) \div 2
         IN  IF a[mid + 1] < x THEN bisect_left(a, x, mid + 1, hi) ELSE bisect_left(a, x, lo, mid)
    ELSE lo

\* bisect.bisect (bisect_right) on the zero-based slice a[lo:hi].
RECURSIVE bisect(_, _, _, _)
bisect(a, x, lo, hi) ==
    IF lo < hi
    THEN LET mid == (lo + hi) \div 2
         IN  IF x < a[mid + 1] THEN bisect(a, x, lo, mid) ELSE bisect(a, x, mid + 1, hi)
    ELSE lo

\* What random.choices raises for these weights: IndexError on an empty list
\* (cum_weights[-1]), ValueError when the total is not positive.
choices_raises(weights) ==
    IF weights = <<>> THEN "IndexError"
    ELSE IF SumSeq(weights) <= 0 THEN "ValueError"
    ELSE "none"

\* random.choices(population, weights, k=1)[0] for the draw random() * total = x.
\* The cumulative weights are integers, so every real draw in [0, total) selects
\* what its integer part selects.
choices(population, weights, x) ==
    population[bisect(cum_weights(weights), x, 0, Len(population) - 1) + 1]

\* StageData.get_random: every template a draw can return.
get_random(data) ==
    {choices(data.templates, data.weights, x) : x \in 0..(SumSeq(data.weights) - 1)}

\* The selection of Actor.send for the stage st of the game: what get_random
\* raises, or a template it returns (<<t>>).
send_selects(stgs, st) ==
    LET data == stgs[st] IN
    IF choices_raises(data.weights) # "none"
    THEN {[stage |-> st, raised |-> choices_raises(data.weights), template |-> <<>>]}
    ELSE {[stage |-> st, raised |-> "none", template |-> <<t>>] : t \in get_random(data)}

\* Actor.send(target) for the stage st of the game: the selection, then
\* template.ui(target, self); delivered says that ui has reached its ctx.send.
send(stgs, st, target) ==
    {[stage     |-> sel.stage,
      raised    |-> IF sel.raised # "none" THEN sel.raised ELSE ui_raises(sel.template[1]),
      template  |-> sel.template,
      target    |-> target,
      delivered |-> sel.raised = "none" /\ ui_raises(sel.template[1]) = "none"]
        : sel \in send_selects(stgs, st)}

\* The character of the game runs: resources/characters are not part of the
\* sources, this one has a pool for every stage.
Character ==
    << [stage |-> StageInt(1), templates |-> <<tZ, tA>>],
       [stage |-> StageTuple(<<2, 3>>), templates |-> <<tA, tB>>],
       [stage |-> StageAll, templates |-> <<tB>>] >>

\* The StageGroup arguments ActorSpec draws from.
StageArgs     == {StageInt(1), StageInt(3), StageTuple(<<1, 2>>), StageTuple(<<2, 3>>), StageAll}
TemplateLists == {<<tA>>, <<tZ>>, <<tZ, tA>>, <<tA, tB>>, <<tB, tZ>>}
GroupArgs     == [stage : StageArgs, templates : TemplateLists]
GroupLists    == UNION {[1..n -> GroupArgs] : n \in 0..MaxGroups}

\* The StageGroup arguments with ChoiceTemplates that ChoiceSpec draws from.
ChoiceLists      == {<<tC>>, <<tA, tD>>, <<tD, tC>>}
ChoiceGroupArgs  == [stage : StageArgs, templates : ChoiceLists]
ChoiceGroupLists == UNION {[1..n -> ChoiceGroupArgs] : n \in 0..MaxGroups}

\* ------------------------------------------------------ game.py: the session
EmptyMap == [x \in {} |-> 0]

\* Player.__init__: self.state = None, written <<>>; a state s is written <<s>>.
Player(id) == [id |-> id, state |-> <<>>]

\* Player.register assigns the initial PlayerState.
register(player) ==
    [player EXCEPT !.state = <<[a \in Range(values_to_check) |-> 0]>>]

\* any(getattr(player.state, attr) < 0 for attr in self.values_to_check)
any_negative(state) == \E i \in 1..Len(values_to_check) : state[values_to_check[i]] < 0

\* The event loop runs other coroutines only while Game.loop is not running:
\* with no player, gather() returns a finished future and the loop never yields.
EventLoopFree == loop_pc # "spinning"

\* A mutant of remove_player: the KeyError is swallowed.
remove_player_pass(ps, id) ==
    [players |-> [x \in DOMAIN ps \ {id} |-> ps[x]], raised |-> "none"]

\* Game.remove_player: del self.players[id], NotImplementedError on KeyError.
remove_player(ps, id) ==
    IF id \in DOMAIN ps
    THEN [players |-> without(ps, id), raised |-> "none"]
    ELSE [players |-> ps, raised |-> "NotImplementedError"]

\* The expression self.death_player(player) of Game.tick: death_player is a
\* coroutine function and the call is not awaited, so it makes a coroutine
\* object that never runs: it sends nothing and removes nobody.
death_player_call(ps, ns, dead) == [players |-> ps, notices |-> ns]

\* A mutant of the condition: >= instead of >.
advance_due_inclusive(st, gt, mt) ==
    /\ gt * 1000 >= cumm_percent_time_per_stage[st] * mt
    /\ gt * 10 < mt

\* A mutant of the condition: <= instead of < in the test against max_time.
advance_due_through_end(st, gt, mt) ==
    /\ gt * 1000 > cumm_percent_time_per_stage[st] * mt
    /\ gt * 10 <= mt

\* The condition of the stage check, on integers: game_time in minutes, mt in
\* tenths of a minute, the threshold in percent.
advance_due(st, gt, mt) ==
    /\ gt * 1000 > cumm_percent_time_per_stage[st] * mt
    /\ gt * 10 < mt

\* A mutant of the stage check: the test against max_time is left out.
stage_check_unbounded(st, gt, mt) ==
    IF gt * 1000 > cumm_percent_time_per_stage[st] * mt
    THEN IF index(total_stages, st) + 1 < Len(total_stages)
         THEN [stage |-> total_stages[index(total_stages, st) + 2], raised |-> "none"]
         ELSE [stage |-> st, raised |-> "IndexError"]
    ELSE [stage |-> st, raised |-> "none"]

\* A mutant of the stage check: while instead of if, the stage catches up with
\* the clock in one pass.
RECURSIVE stage_check_catch_up(_, _, _)
stage_check_catch_up(st, gt, mt) ==
    IF advance_due(st, gt, mt)
    THEN IF index(total_stages, st) + 1 < Len(total_stages)
         THEN stage_check_catch_up(total_stages[index(total_stages, st) + 2], gt, mt)
         ELSE [stage |-> st, raised |-> "IndexError"]
    ELSE [stage |-> st, raised |-> "none"]

\* The stage check of Game.loop: total_stages[total_stages.index(stage) + 1],
\* an IndexError when that index is past the end.
stage_check(st, gt, mt) ==
    IF advance_due(st, gt, mt)
    THEN IF index(total_stages, st) + 1 < Len(total_stages)
         THEN [stage |-> total_stages[index(total_stages, st) + 2], raised |-> "none"]
         ELSE [stage |-> st, raised |-> "IndexError"]
    ELSE [stage |-> st, raised |-> "none"]

finished(t) == t.pc \in {"done", "failed"}

\* A mutant of the gather: it completes with the first tick that finishes.
gather_first_completed(t) == \E id \in DOMAIN t : finished(t[id])

\* When the future of asyncio.gather completes: with return_exceptions, when
\* every tick has returned or raised; without, also at the first exception.
gather_done(t) ==
    \/ \A id \in DOMAIN t : finished(t[id])
    \/ ~return_exceptions /\ \E id \in DOMAIN t : t[id].pc = "failed"

\* Whether awaiting the gather raises into the except clause of Game.loop.
gather_raises(t) == ~return_exceptions /\ \E id \in DOMAIN t : t[id].pc = "failed"

\* The coroutine self.tick(player) made for one value of self.players.  A tick
\* holds its Player object: mapped says that the object is still the one in
\* self.players; once it is not, state is <<s>>, the state of the object, for
\* as long as the tick has still to read it.
new_tick == [pc |-> "ready", lost |-> FALSE, stage |-> 0, mapped |-> TRUE, state |-> <<>>]

\* self.players loses or replaces the object of id: a tick that holds the
\* object keeps it.
orphaned(t, ps, id) ==
    IF id \in DOMAIN t /\ id \in DOMAIN ps /\ t[id].mapped
    THEN [t EXCEPT ![id].mapped = FALSE,
                   ![id].state = IF t[id].pc = "ready" THEN <<ps[id].state[1]>> ELSE <<>>]
    ELSE t

\* The state of the Player object a tick holds.
tick_state(t, ps, id) ==
    IF t[id].mapped THEN ps[id].state[1] ELSE t[id].state[1]

\* The values datetime.now() - start_time can have at a read that follows the
\* read of game_time: the clock does not run backwards.
Clock == {t \in ClockReads : t >= game_time}

\* A mutant of players = self.players.values(): a copy, list(...), which holds
\* the Players of the start of the loop whatever the dict holds now.
fan_out_of_copy(view, copy) == [id \in DOMAIN copy |-> new_tick]

\* [self.tick(player) for player in players]: players is the view of
\* self.players taken before while True, which shows the dict as it is now;
\* copy is what a copy taken there would hold.
fan_out(view, copy) == [id \in DOMAIN view |-> new_tick]

\* One pass of the body of while True, up to the await of the gather: the
\* clock is read as now, then the stage check, then one tick coroutine per
\* value of self.players.
Iterate(now) ==
    LET chk == stage_check(stage, now, max_time) IN
    /\ game_time' = now
    /\ stage' = chk.stage
    /\ IF chk.raised # "none"
       THEN /\ loop_pc' = "crashed"
            /\ tick' = EmptyMap
       ELSE /\ tick' = fan_out(players, IF loop_pc = "created" THEN players ELSE tick)
            /\ loop_pc' = IF DOMAIN players = {} THEN "spinning" ELSE "waiting"

\* Game.loop is started: start_time = now, then the first pass.
StartLoop ==
    /\ loop_pc = "created"
    /\ Iterate(0)
    /\ UNCHANGED <<players, max_time, notices, last_cmd, consequences, broadcast,
                   actorVars>>

\* next() of the iterator b of self.players.values(): used is the size of the
\* dict when the iteration began, sent the ids whose Player it has yielded.  It
\* raises RuntimeError when the dict has changed size since, or when it still
\* has entries after used of them were yielded; to holds the entries left.
values_next(ps, b) ==
    IF Cardinality(DOMAIN ps) # b.used
    THEN [raised |-> "RuntimeError", to |-> {}]
    ELSE IF DOMAIN ps \ b.sent = {}
    THEN [raised |-> "none", to |-> {}]
    ELSE IF Cardinality(b.sent) >= b.used
    THEN [raised |-> "RuntimeError", to |-> {}]
    ELSE [raised |-> "none", to |-> DOMAIN ps \ b.sent]

\* The for loop of the except clause from one await to the next: next() on the
\* iterator b, then either the send to the Player it yields, in which the loop
\* is suspended, or the end of the for loop and the next pass.  An exception
\* raised here leaves Game.loop.
error_broadcast(b) ==
    LET nxt == values_next(players, b) IN
    IF nxt.raised # "none"
    THEN /\ loop_pc' = "crashed"
         /\ tick' = EmptyMap
         /\ broadcast' = <<>>
         /\ UNCHANGED <<stage, game_time, notices>>
    ELSE IF nxt.to = {}
    THEN /\ \E now \in Clock : Iterate(now)
         /\ broadcast' = <<>>
         /\ UNCHANGED notices
    ELSE /\ \E id \in nxt.to :
              /\ notices' = [notices EXCEPT ![id] = @ \cup {"error"}]
              /\ broadcast' = <<[b EXCEPT !.sent = @ \cup {id}]>>
         /\ loop_pc' = "broadcasting"
         /\ UNCHANGED <<stage, game_time, tick>>

\* Game.loop is resumed: by the completed gather, to the next pass or, if the
\* gather raised, into the except clause; or by the completed send of the
\* except clause.
LoopResume ==
    /\ \/ loop_pc = "waiting" /\ gather_done(tick)
       \/ loop_pc = "broadcasting"
    /\ IF loop_pc = "broadcasting"
       THEN error_broadcast(broadcast[1])
       ELSE IF gather_raises(tick)
       THEN error_broadcast([used |-> Cardinality(DOMAIN players), sent |-> {}])
       ELSE /\ \E now \in Clock : Iterate(now)
            /\ UNCHANGED <<notices, broadcast>>
    /\ UNCHANGED <<players, max_time, last_cmd, consequences, actorVars>>

\* A pass with no player: the gather of nothing is done at once.
Spin ==
    /\ loop_pc = "spinning"
    /\ \E now \in Clock : Iterate(now)
    /\ UNCHANGED <<players, max_time, notices, last_cmd, consequences, broadcast,
                   actorVars>>

\* Game.tick up to its sleep: the loss check, then the sleep of the stage.
TickBegin(id) ==
    /\ id \in DOMAIN tick
    /\ tick[id].pc = "ready"
    /\ LET lost == any_negative(tick_state(tick, players, id))
           dead == IF lost THEN death_player_call(players, notices, id)
                   ELSE [players |-> players, notices |-> notices]
       IN  /\ players' = dead.players
           /\ notices' = dead.notices
           /\ tick' = [tick EXCEPT ![id].pc = "sleeping", ![id].lost = lost,
                                   ![id].stage = stage, ![id].state = <<>>]
    /\ UNCHANGED <<stage, max_time, loop_pc, game_time, last_cmd, consequences,
                   broadcast, actorVars>>

\* Game.tick after its sleep: Actor.send selects from the pool of the stage and
\* delivers with ctx.send, which can raise.
TickWake(id) ==
    /\ id \in DOMAIN tick
    /\ tick[id].pc = "sleeping"
    /\ \E sel \in send(stages, stage, id) :
       \/ /\ sel.delivered
          /\ tick' = [tick EXCEPT ![id].pc = "done"]
       \/ /\ tick' = [tick EXCEPT ![id].pc = "failed"]
    /\ UNCHANGED <<players, stage, max_time, loop_pc, game_time, notices,
                   last_cmd, consequences, broadcast, actorVars>>

\* add_player(ctx) for the user id.  The Player it constructs and registers is
\* known to nothing else before self.players[ctx.user.id] = player, so the
\* call takes effect in the run that follows the await of register.
AddPlayer(id) ==
    /\ EventLoopFree
    /\ players' = with(players, id, register(Player(id)))
    /\ tick' = orphaned(tick, players, id)
    /\ last_cmd' = [op |-> "add_player", id |-> id, raised |-> "none"]
    /\ UNCHANGED <<stage, max_time, loop_pc, game_time, notices, consequences,
                   broadcast, actorVars>>

\* remove_player(ctx) for the user id.
RemovePlayer(id) ==
    /\ EventLoopFree
    /\ LET res == remove_player(players, id) IN
       /\ players' = res.players
       /\ last_cmd' = [op |-> "remove_player", id |-> id, raised |-> res.raised]
       /\ tick' = IF id \in DOMAIN res.players THEN tick ELSE orphaned(tick, players, id)
    /\ UNCHANGED <<stage, max_time, loop_pc, game_time, notices, consequences,
                   broadcast, actorVars>>

\* The follow-up of a delivered choice: a Consequence changes one attribute of
\* the state of a player of the game.
ApplyConsequence(id, a, d) ==
    /\ EventLoopFree
    /\ consequences < MaxConsequences
    /\ id \in DOMAIN players
    /\ players' = [players EXCEPT ![id].state[1][a] = @ + d]
    /\ consequences' = consequences + 1
    /\ UNCHANGED <<stage, max_time, loop_pc, game_time, tick, notices, last_cmd,
                   broadcast, actorVars>>

GameInit ==
    /\ players = EmptyMap
    /\ stage = 1
    /\ max_time \in MaxTimes
    /\ loop_pc = "created"
    /\ game_time = 0
    /\ tick = EmptyMap
    /\ notices = [i \in Ids |-> {}]
    /\ last_cmd = [op |-> "none", id |-> 0, raised |-> "none"]
    /\ consequences = 0
    /\ broadcast = <<>>

Init ==
    /\ GameInit
    /\ stage_groups = Character
    /\ stages = Actor(Character)
    /\ selected = <<>>

Next ==
    \/ StartLoop
    \/ LoopResume
    \/ Spin
    \/ \E id \in Ids : TickBegin(id)
    \/ \E id \in Ids : TickWake(id)
    \/ \E id \in Ids : AddPlayer(id)
    \/ \E id \in Ids : RemovePlayer(id)
    \/ \E id \in Ids, c \in Consequences : ApplyConsequence(id, c.attr, c.delta)

Spec == Init /\ [][Next]_vars

\* ------------------------------------------- an Actor of any StageGroups
\* Actor(name, picture, templates): self.stages = self.cast_stages(templates).
ActorConstruct ==
    /\ stages = <<>>
    /\ stages' = Actor(stage_groups)
    /\ UNCHANGED <<gameVars, stage_groups, selected>>

\* Actor.send(target) for a player of the game.
ActorSend(id) ==
    /\ stages # <<>>
    /\ id \in DOMAIN players
    /\ \E sel \in send(stages, stage, id) : selected' = <<sel>>
    /\ UNCHANGED <<gameVars, stage_groups, stages>>

\* A game at any declared stage with one registered player, and the StageGroup
\* arguments of an Actor.
ActorInit ==
    /\ players = [id \in {1} |-> register(Player(id))]
    /\ stage \in Range(total_stages)
    /\ max_time = 140
    /\ loop_pc = "created"
    /\ game_time = 0
    /\ tick = EmptyMap
    /\ notices = [i \in Ids |-> {}]
    /\ last_cmd = [op |-> "none", id |-> 0, raised |-> "none"]
    /\ consequences = 0
    /\ broadcast = <<>>
    /\ stage_groups \in GroupLists
    /\ stages = <<>>
    /\ selected = <<>>

ActorNext ==
    \/ ActorConstruct
    \/ \E id \in Ids : ActorSend(id)

ActorSpec == ActorInit /\ [][ActorNext]_vars

\* ------------------------------------------ an Actor with ChoiceTemplates
\* The PlayerStates of the targets: loyalty on either side of the condition.
PlayerStates ==
    {[a \in Range(values_to_check) |-> IF a = "loyalty" THEN l ELSE 0] : l \in {40, 60}}

\* A game at any declared stage with one player in one of the PlayerStates, and
\* StageGroup arguments that hold ChoiceTemplates.
ChoiceInit ==
    /\ players \in {[id \in {1} |-> [Player(id) EXCEPT !.state = <<st>>]] : st \in PlayerStates}
    /\ stage \in Range(total_stages)
    /\ max_time = 140
    /\ loop_pc = "created"
    /\ game_time = 0
    /\ tick = EmptyMap
    /\ notices = [i \in Ids |-> {}]
    /\ last_cmd = [op |-> "none", id |-> 0, raised |-> "none"]
    /\ consequences = 0
    /\ broadcast = <<>>
    /\ stage_groups \in ChoiceGroupLists
    /\ stages = <<>>
    /\ selected = <<>>

ChoiceSpec == ChoiceInit /\ [][ActorNext]_vars

\* ------------------------------------------------------------------ claims
\* A step that is a pass of Game.loop: its start, a pass without players, or
\* the pass that follows a completed gather (every tick is made anew).
PassStep ==
    /\ loop_pc' # "created"
    /\ \/ loop_pc = "created"
       \/ loop_pc = "spinning"
       \/ /\ loop_pc = "waiting"
          /\ \A id \in DOMAIN tick : tick[id].pc \in {"done", "failed"}
          /\ loop_pc' # "broadcasting"
          /\ \/ loop_pc' # "waiting"
             \/ \A id \in DOMAIN tick' : tick'[id].pc = "ready"
       \/ /\ loop_pc = "broadcasting"
          /\ loop_pc' \in {"waiting", "spinning"}

\* C1: Game.stage starts at 1, never decreases from one state to the next, is
\* always one of the declared stages, and the stage check never indexes past
\* the last declared stage (the loop never ends on an IndexError).
C1_StageMonotoneBounded ==
    /\ stage = 1
    /\ [](stage \in {total_stages[i] : i \in 1..Len(total_stages)} /\ loop_pc # "crashed")
    /\ [][stage' >= stage]_vars

\* C1 witness: a pass was made at the final stage with the clock at or past
\* the total duration, with ticks of players under way.
C1_Witness ==
    /\ stage = total_stages[Len(total_stages)]
    /\ game_time * 10 >= max_time
    /\ loop_pc = "waiting"
    /\ DOMAIN players # {}

\* C2 (as claimed): once a tick has found a negative tracked attribute in the
\* state of its player, death handling has run and the player is absent from
\* Game.players.
C2_LossDetection ==
    \A id \in DOMAIN tick :
        (tick[id].lost /\ tick[id].mapped) => id \notin DOMAIN players

\* A step that completes add_player for the user of last_cmd'.
AddStep ==
    /\ last_cmd'.op = "add_player"
    /\ consequences' = consequences
    /\ last_cmd' # last_cmd \/ players' # players

\* C3 (as claimed): add_player for an identity that is already a key of
\* Game.players fails with an error and leaves the player map unchanged.
C3_AddPlayerTwiceRejected ==
    [][(AddStep /\ last_cmd'.id \in DOMAIN players)
          => (last_cmd'.raised # "none" /\ players' = players)]_vars

\* A step that completes remove_player for the user of last_cmd'.
RemoveStep ==
    /\ last_cmd'.op = "remove_player"
    /\ consequences' = consequences
    /\ last_cmd' # last_cmd \/ players' # players

\* C4: remove_player deletes exactly the entry of its identity and leaves every
\* other entry unchanged when the identity is present; when it is absent it
\* fails with an error and leaves the player map and the stage unchanged.
C4_RemovePlayer ==
    [][RemoveStep =>
         IF last_cmd'.id \in DOMAIN players
         THEN /\ DOMAIN players' = DOMAIN players \ {last_cmd'.id}
              /\ \A o \in DOMAIN players' : players'[o] = players[o]
              /\ last_cmd'.raised = "none"
         ELSE /\ last_cmd'.raised # "none"
              /\ players' = players
              /\ stage' = stage]_vars

\* C4 witness: a remove_player of an absent identity has failed while another
\* player is in the game.
C4_Witness ==
    /\ last_cmd.op = "remove_player"
    /\ last_cmd.raised # "none"
    /\ DOMAIN players # {}
    /\ last_cmd.id \notin DOMAIN players

\* C5: the failure of one tick leaves every other tick of the pass as it is, a
\* tick that has not finished is never dropped or started again before it
\* finishes, the loop never ends, and once every tick of a pass has returned or
\* failed the next pass can begin.
C5_FailureContained ==
    /\ [](loop_pc # "crashed")
    /\ []((loop_pc = "waiting" /\ \A id \in DOMAIN tick : tick[id].pc \in {"done", "failed"})
            => ENABLED LoopResume)
    /\ [][\A id \in DOMAIN tick :
            /\ tick[id].pc \in {"ready", "sleeping"}
                 => /\ id \in DOMAIN tick'
                    /\ \/ tick'[id].pc = tick[id].pc
                       \/ tick[id].pc = "ready" /\ tick'[id].pc = "sleeping"
                       \/ tick[id].pc = "sleeping" /\ tick'[id].pc \in {"done", "failed"}
            /\ (tick[id].pc = "sleeping" /\ id \in DOMAIN tick' /\ tick'[id].pc = "failed")
                 => /\ loop_pc' = loop_pc
                    /\ \A o \in DOMAIN tick \ {id} : o \in DOMAIN tick' /\ tick'[o] = tick[o]]_vars

\* C5 witness: in one pass the tick of one player has failed and the tick of
\* another player has run to its delivery.
C5_Witness ==
    /\ loop_pc = "waiting"
    /\ \E a \in DOMAIN tick, b \in DOMAIN tick :
          a # b /\ tick[a].pc = "failed" /\ tick[b].pc = "done"

\* C6 (as claimed): a tick delivers content only to a player whose id is in
\* Game.players, also when the tick was under way at the removal.
C6_NoDeliveryAfterRemoval ==
    [][\A id \in DOMAIN tick :
          (tick[id].pc = "sleeping" /\ id \in DOMAIN tick' /\ tick'[id].pc = "done")
             => id \in DOMAIN players]_vars

\* C7: at the stage check of a pass the stage advances to the next declared
\* stage exactly when the clock read is greater than the cumulative threshold
\* of the stage times the total duration and less than the total duration, and
\* no other step changes the stage; with total duration 14.0 the checks at 3, 4
\* and 9 give the stages 1, 2 and 3.
C7_StageAdvanceRule ==
    [][/\ stage' = IF /\ PassStep
                      /\ game_time' * 1000 > cumm_percent_time_per_stage[stage] * max_time
                      /\ game_time' * 10 < max_time
                   THEN stage + 1 ELSE stage
       /\ (PassStep /\ max_time = 140) =>
             /\ (stage = 1 /\ game_time' = 3) => stage' = 1
             /\ (stage = 1 /\ game_time' = 4) => stage' = 2
             /\ (stage = 2 /\ game_time' = 9) => stage' = 3]_vars

\* C7 witness: with total duration 14.0 the check at 9 has brought the game to
\* stage 3.
C7_Witness == max_time = 140 /\ game_time = 9 /\ stage = 3

\* Whether the stage argument of a StageGroup names the stage s.
Includes(arg, s) ==
    \/ arg.kind = "all"
    \/ arg.kind = "int" /\ arg.v = <<s>>
    \/ arg.kind = "tuple" /\ \E i \in 1..Len(arg.v) : arg.v[i] = s

\* The templates of the StageGroups that name s, in the order of the groups.
RECURSIVE PoolOf(_, _)
PoolOf(args, s) ==
    IF Len(args) = 0 THEN <<>>
    ELSE PoolOf(SubSeq(args, 1, Len(args) - 1), s)
         \o (IF Includes(args[Len(args)].stage, s) THEN args[Len(args)].templates ELSE <<>>)

\* C8: for every declared stage s the pool Actor.stages[s] holds exactly the
\* templates of the StageGroups whose stage is s, whose tuple contains s or
\* whose stage is "all", in the order of the groups, and a template selected
\* for stage s belongs to such a StageGroup.
C8_PoolsByStage ==
    stages # <<>> =>
       /\ \A i \in 1..Len(total_stages) :
             stages[total_stages[i]].templates = PoolOf(stage_groups, total_stages[i])
       /\ \A k \in 1..Len(selected) :
             selected[k].template # <<>> =>
                \E i \in 1..Len(stage_groups) :
                   /\ Includes(stage_groups[i].stage, selected[k].stage)
                   /\ \E j \in 1..Len(stage_groups[i].templates) :
                         stage_groups[i].templates[j] = selected[k].template[1]

\* C8 witness: an Actor with an "all" group and a group of another stage has
\* selected a template for the stage of the game.
C8_Witness ==
    /\ stages # <<>>
    /\ selected # <<>>
    /\ selected[1].template # <<>>
    /\ \E i \in 1..Len(stage_groups) : stage_groups[i].stage.kind = "all"
    /\ \E i \in 1..Len(stage_groups) : ~Includes(stage_groups[i].stage, selected[1].stage)

\* C9: a template returned by the selection of a stage pool has weight > 0.
C9_NoZeroWeightSelected ==
    \A k \in 1..Len(selected) :
       selected[k].template # <<>> => selected[k].template[1].weight > 0

\* C9 witness: a template was selected from a pool that begins with a template
\* of weight 0 and holds one of positive weight.
C9_Witness ==
    /\ selected # <<>>
    /\ selected[1].template # <<>>
    /\ stages[selected[1].stage].weights[1] = 0
    /\ \E i \in 1..Len(stages[selected[1].stage].weights) :
          stages[selected[1].stage].weights[i] > 0

\* C10 (as claimed): when the loop goes on after a pass in which a tick failed,
\* the error notice has been sent to the channel of every player.
C10_ErrorNoticeBroadcast ==
    [][(loop_pc = "waiting" /\ PassStep /\ \E id \in DOMAIN tick : tick[id].pc = "failed")
          => \A id \in DOMAIN players : "error" \in notices'[id]]_vars

\* C11 (as claimed): a suspended tick does not block the stage check: while a
\* tick of the fan-out is suspended, Game.loop can go on to its next stage check.
C11_TickNeverBlocksStageCheck ==
    (loop_pc = "waiting" /\ \E id \in DOMAIN tick : tick[id].pc = "sleeping")
        => ENABLED LoopResume

\* C11 (amended): a tick that has not finished never blocks the tick of another
\* player, but it holds back the stage check: Game.loop is not resumed while a
\* tick of the fan-out has still to complete or fail, and the stage does not
\* change in any step taken while one has.
C11_TickBlocksOnlyStageCheck ==
    /\ [](\A a \in DOMAIN tick, b \in DOMAIN tick :
            (a # b /\ tick[a].pc = "sleeping") =>
                /\ tick[b].pc = "ready" => ENABLED TickBegin(b)
                /\ tick[b].pc = "sleeping" => ENABLED TickWake(b))
    /\ []((loop_pc = "waiting" /\ \E id \in DOMAIN tick : ~finished(tick[id]))
            => ~ENABLED LoopResume)
    /\ [][(\E id \in DOMAIN tick : ~finished(tick[id])) => stage' = stage]_vars

\* C11 witness: in one fan-out the tick of one player is suspended in its sleep
\* and the tick of another has delivered.
C11_Witness ==
    /\ loop_pc = "waiting"
    /\ \E a \in DOMAIN tick, b \in DOMAIN tick :
          a # b /\ tick[a].pc = "sleeping" /\ tick[b].pc = "done"

C13_AvailabilityGating ==
    /\ \A k \in 1..Len(selected) :
          (selected[k].delivered /\ is_ChoiceTemplate(selected[k].template[1]))
             => is_available(selected[k].template[1], players[selected[k].target].state[1])
    /\ \A st \in PlayerStates :
          /\ is_available(tD, st)
          /\ is_available(tC, st) = (st["loyalty"] > 50)

\* C14: every pass of Game.loop makes one tick for each player that is in
\* Game.players when the pass begins, whenever the player has joined, and none
\* for anyone else, so none for a player that has been removed.
C14_TickedWhileInMap ==
    [][(PassStep /\ loop_pc' # "crashed") =>
          /\ DOMAIN tick' = DOMAIN players
          /\ \A id \in DOMAIN tick' : tick'[id].pc = "ready"]_vars

\* C14 witness: a pass later than the first has made a tick for the player
\* whose add_player was the last command, and none for the other user.
C14_Witness ==
    /\ loop_pc = "waiting"
    /\ game_time > 0
    /\ last_cmd.op = "add_player"
    /\ last_cmd.id \in DOMAIN tick
    /\ DOMAIN tick # Ids

\* C15 (as claimed): a ChoiceTemplate that Actor.send selects for a player
\* reaches the player, so that the player can choose one of its labels and have
\* the Consequence of that label applied to the state.
C15_ChoiceDeliveredForConsequence ==
    \A k \in 1..Len(selected) :
        (/\ selected[k].template # <<>>
         /\ is_ChoiceTemplate(selected[k].template[1])
         /\ DOMAIN selected[k].template[1].choices # {})
            => /\ selected[k].delivered
               /\ selected[k].raised = "none"

\* C16 (as claimed): a tick that has found a negative tracked attribute in the
\* state of its player has ended there: it has neither gone to its sleep nor
\* delivered content.
C16_LostTickExitsEarly ==
    \A id \in DOMAIN tick :
        tick[id].lost => tick[id].pc \notin {"sleeping", "done"}

\* C17: Game.loop, once started, has no final state: no step takes it out of
\* while True, and whatever the player map, the stage and the clock are, it
\* can make its next pass, or it waits for a tick that can run.
C17_LoopNeverTerminates ==
    /\ [][loop_pc # "created" => loop_pc' \in {"waiting", "spinning", "broadcasting"}]_vars
    /\ [](loop_pc = "spinning" => ENABLED Spin)
    /\ [](loop_pc = "broadcasting" => ENABLED LoopResume)
    /\ [](loop_pc = "waiting" =>
            \/ ENABLED LoopResume
            \/ \E id \in DOMAIN tick : ENABLED TickBegin(id)
            \/ \E id \in DOMAIN tick : ENABLED TickWake(id))

\* C17 witness: Game.loop runs with no player, at the final stage, with the
\* clock past the total duration.
C17_Witness ==
    /\ loop_pc = "spinning"
    /\ DOMAIN players = {}
    /\ stage = total_stages[Len(total_stages)]
    /\ game_time * 10 > max_time

\* The stage that the thresholds assign to the clock read gt: the first stage
\* whose cumulative threshold gt has not passed, the final stage if none.
RECURSIVE stage_of_time(_, _, _)
stage_of_time(i, gt, mt) ==
    IF i >= Len(total_stages) \/ gt * 1000 <= cumm_percent_time_per_stage[i] * mt
    THEN total_stages[i]
    ELSE stage_of_time(i + 1, gt, mt)

\* C18: no step moves the stage by more than one declared stage, and a stage
\* check at stage 1 whose clock read is past the threshold of stage 2 (and
\* before the total duration) leaves the game at stage 2, behind the stage of
\* that time.
C18_OneStagePerPass ==
    [][/\ stage' \in {stage, stage + 1}
       /\ (/\ PassStep
           /\ stage = 1
           /\ game_time' * 1000 > cumm_percent_time_per_stage[2] * max_time
           /\ game_time' * 10 < max_time)
             => /\ stage' = 2
                /\ stage' < stage_of_time(1, game_time', max_time)]_vars

\* C18 witness: the game is at stage 2 after a check whose clock read is past
\* the threshold of stage 2.
C18_Witness ==
    /\ stage = 2
    /\ game_time * 1000 > cumm_percent_time_per_stage[2] * max_time
    /\ game_time * 10 < max_time
    /\ stage_of_time(1, game_time, max_time) = 3

\* C19: a stage check whose clock read is at or past the total duration leaves
\* the stage as it is, and so does every step after it: a game that is at
\* stage 1 or 2 then stays there.
C19_NoAdvanceAfterEnd ==
    [][game_time' * 10 >= max_time => stage' = stage]_vars

\* C19 witness: the clock has been read at or past the total duration while the
\* game is at stage 1 or 2, and ticks of that stage are under way.
C19_Witness ==
    /\ game_time * 10 >= max_time
    /\ stage < total_stages[Len(total_stages)]
    /\ loop_pc = "waiting"
    /\ \E id \in DOMAIN tick : tick[id].pc = "sleeping" /\ tick[id].stage = stage

\* C20: the stage changes only in a pass of Game.loop, made when every tick of
\* the fan-out before it has returned or failed, so a tick that wakes from its
\* sleep selects from the pool of the stage that chose its sleep.
C20_StageStableWithinTick ==
    /\ [][stage' # stage =>
            /\ PassStep
            /\ \A id \in DOMAIN tick : finished(tick[id])]_vars
    /\ [](\A id \in DOMAIN tick : tick[id].pc = "sleeping" => tick[id].stage = stage)
    /\ [][\A id \in DOMAIN tick :
            (tick[id].pc = "sleeping" /\ id \in DOMAIN tick' /\ finished(tick'[id]))
               => tick[id].stage = stage']_vars

\* C20 witness: after the stage has advanced, a tick that took the sleep of the
\* new stage has delivered while the tick of another player is in that sleep.
C20_Witness ==
    /\ stage > 1
    /\ \E a \in DOMAIN tick, b \in DOMAIN tick :
          /\ tick[a].pc = "done" /\ tick[a].stage = stage
          /\ tick[b].pc = "sleeping" /\ tick[b].stage = stage

====
